---- MODULE Spec2Model ----
(***************************************************************************)
(* A model of bp.py: fixed-layout binary records.  A Struct is an ordered  *)
(* tuple of Fields; each Field binds a name to a Type (Int8, Int16, Int32, *)
(* String) and holds a value.  Struct.read / Struct.write move the values  *)
(* through a byte stream, Struct.get / Struct.set address them by name.    *)
(*                                                                         *)
(* Bytes are the naturals 0..255, a stream is a sequence of bytes with a   *)
(* cursor, a text is the sequence of its code points.  A Python value is a *)
(* tagged record: None, an int, or a str.  An exception is the "err"       *)
(* component of an operation's result ("none" when it returns normally).   *)
(***************************************************************************)
EXTENDS Integers, Sequences, FiniteSets

VARIABLES
    fields,     \* Struct.fields of the struct under test: <<[name, type, value]>>
    fields2,    \* Struct.fields of a second struct built from the same declarations
    stream,     \* the bytes of the BinaryIO the caller supplies
    pos,        \* the cursor of that BinaryIO
    last        \* the last call made, its arguments and its outcome

vars == <<fields, fields2, stream, pos, last>>

----------------------------------------------------------------------------
(* Values: SerializableType = int | str, and None (the default of Field).  *)

None == [tag |-> "none"]
IntV(n) == [tag |-> "int", n |-> n]
StrV(s) == [tag |-> "str", s |-> s]

(* Types: the three NumType classes and String(length).                    *)
Int8 == [kind |-> "Int8", length |-> 0]
Int16 == [kind |-> "Int16", length |-> 0]
Int32 == [kind |-> "Int32", length |-> 0]
String(length) == [kind |-> "String", length |-> length]

IsNum(type) == type.kind \in {"Int8", "Int16", "Int32"}

(* Field(name, _type, default).                                            *)
Field(name, type, default) == [name |-> name, type |-> type, value |-> default]

Min(a, b) == IF a < b THEN a ELSE b

----------------------------------------------------------------------------
(* BinaryIO: read(n) returns the bytes from the cursor, at most n, and     *)
(* moves the cursor past them; write(b) stores b at the cursor, over what  *)
(* is there and past the end, moves the cursor past it and returns Len(b). *)

StreamRead(strm, p, n) ==
    LET e == Min(p + n, Len(strm))
    IN  [data |-> SubSeq(strm, p + 1, e), pos |-> e]

StreamWrite(strm, p, b) ==
    [stream |-> SubSeq(strm, 1, p) \o b \o SubSeq(strm, p + Len(b) + 1, Len(strm)),
     pos |-> p + Len(b),
     ret |-> Len(b)]

----------------------------------------------------------------------------
(* struct.pack / struct.unpack for the formats "<b" "<h" "<i" ">b" ">h"    *)
(* ">i": standard sizes 1, 2, 4, two's complement, no padding.             *)

Width(kind) == CASE kind = "Int8" -> 1 [] kind = "Int16" -> 2 [] kind = "Int32" -> 4

IntMin(kind) ==
    CASE kind = "Int8" -> -128 [] kind = "Int16" -> -32768
      [] kind = "Int32" -> -2147483647 - 1
IntMax(kind) ==
    CASE kind = "Int8" -> 127 [] kind = "Int16" -> 32767 [] kind = "Int32" -> 2147483647

Reverse(s) == [i \in 1..Len(s) |-> s[Len(s) + 1 - i]]

(* The bytes of n, least significant first.                                *)
LittleBytes(w, n) == [i \in 1..w |-> (n \div (256 ^ (i - 1))) % 256]

(* A plausible slip: the two byte orders taken for one another.           *)
OrderBytesSwapped(endian, le) == IF endian = "<" THEN Reverse(le) ELSE le

(* The byte order that the character of the format selects.                *)
OrderBytes(endian, le) == IF endian = "<" THEN le ELSE Reverse(le)

(* st.pack(f"{endian}b|h|i", number): struct.error when number is not an   *)
(* int or does not fit the format.                                         *)
Pack(kind, endian, v) ==
    IF v.tag # "int" \/ v.n < IntMin(kind) \/ v.n > IntMax(kind)
    THEN [err |-> "struct.error", bytes |-> <<>>]
    ELSE [err |-> "none", bytes |-> OrderBytes(endian, LittleBytes(Width(kind), v.n))]

(* The signed number whose bytes, least significant first, are le.         *)
RECURSIVE Horner(_, _)
Horner(le, i) ==
    IF i = Len(le)
    THEN (IF le[i] >= 128 THEN le[i] - 256 ELSE le[i])
    ELSE le[i] + 256 * Horner(le, i + 1)

(* st.unpack(fmt, data)[0]: struct.error unless data has calcsize(fmt)     *)
(* bytes.                                                                  *)
Unpack(kind, endian, data) ==
    IF Len(data) # Width(kind)
    THEN [err |-> "struct.error", value |-> None]
    ELSE [err |-> "none", value |-> IntV(Horner(OrderBytes(endian, data), 1))]

----------------------------------------------------------------------------
(* str.encode("utf-8") and bytes.decode("utf-8"), errors="strict".  A text *)
(* is the sequence of its code points.                                     *)

IsSurrogate(cp) == cp >= 55296 /\ cp <= 57343

EncodeChar(cp) ==
    IF cp < 128 THEN <<cp>>
    ELSE IF cp < 2048 THEN <<192 + (cp \div 64), 128 + (cp % 64)>>
    ELSE IF cp < 65536
         THEN <<224 + (cp \div 4096), 128 + ((cp \div 64) % 64), 128 + (cp % 64)>>
    ELSE <<240 + (cp \div 262144), 128 + ((cp \div 4096) % 64),
           128 + ((cp \div 64) % 64), 128 + (cp % 64)>>

RECURSIVE EncodeFrom(_, _)
EncodeFrom(s, i) == IF i > Len(s) THEN <<>> ELSE EncodeChar(s[i]) \o EncodeFrom(s, i + 1)

Utf8Encode(s) ==
    IF \E i \in 1..Len(s) : IsSurrogate(s[i])
    THEN [err |-> "UnicodeEncodeError", bytes |-> <<>>]
    ELSE [err |-> "none", bytes |-> EncodeFrom(s, 1)]

IsCont(b) == b >= 128 /\ b <= 191

(* The length of the sequence that the lead byte b announces; 0 when b is  *)
(* no lead byte.                                                           *)
SeqLen(b) ==
    IF b < 128 THEN 1
    ELSE IF b >= 194 /\ b <= 223 THEN 2
    ELSE IF b >= 224 /\ b <= 239 THEN 3
    ELSE IF b >= 240 /\ b <= 244 THEN 4
    ELSE 0

(* The second byte of a sequence is further restricted after the lead      *)
(* bytes E0, ED, F0 and F4 (no overlong forms, no surrogates, no code      *)
(* point past U+10FFFF).                                                   *)
SecondOk(b1, b2) ==
    CASE b1 = 224 -> b2 >= 160 /\ b2 <= 191
      [] b1 = 237 -> b2 >= 128 /\ b2 <= 159
      [] b1 = 240 -> b2 >= 144 /\ b2 <= 191
      [] b1 = 244 -> b2 >= 128 /\ b2 <= 143
      [] OTHER -> IsCont(b2)

DecodeChar(d, i, n) ==
    CASE n = 1 -> d[i]
      [] n = 2 -> (d[i] - 192) * 64 + (d[i + 1] - 128)
      [] n = 3 -> (d[i] - 224) * 4096 + (d[i + 1] - 128) * 64 + (d[i + 2] - 128)
      [] n = 4 -> (d[i] - 240) * 262144 + (d[i + 1] - 128) * 4096
                  + (d[i + 2] - 128) * 64 + (d[i + 3] - 128)

RECURSIVE DecodeFrom(_, _, _)
DecodeFrom(d, i, acc) ==
    IF i > Len(d) THEN [err |-> "none", value |-> StrV(acc)]
    ELSE LET n == SeqLen(d[i])
         IN  IF \/ n = 0
                \/ i + n - 1 > Len(d)
                \/ (n >= 2 /\ ~SecondOk(d[i], d[i + 1]))
                \/ \E j \in (i + 2)..(i + n - 1) : ~IsCont(d[j])
             THEN [err |-> "UnicodeDecodeError", value |-> None]
             ELSE DecodeFrom(d, i + n, Append(acc, DecodeChar(d, i, n)))

Utf8Decode(d) == DecodeFrom(d, 1, <<>>)

----------------------------------------------------------------------------
(* Type.verify: the same test in Int8, Int16 and Int32 (type(obj) == int), *)
(* and type(obj) == str in String.  No range or length is checked.         *)

Verify(type, v) == IF IsNum(type) THEN v.tag = "int" ELSE v.tag = "str"

(* Int8.read / Int16.read / Int32.read (stream, endian).                   *)
NumRead(kind, endian, strm, p) ==
    LET r == StreamRead(strm, p, Width(kind))
        u == Unpack(kind, endian, r.data)
    IN  [err |-> u.err, value |-> u.value, pos |-> r.pos]

(* Int8.write / Int16.write / Int32.write (stream, number, endian): pack   *)
(* raises before anything reaches the stream.                              *)
NumWrite(kind, endian, strm, p, v) ==
    LET b == Pack(kind, endian, v)
        w == StreamWrite(strm, p, b.bytes)
    IN  IF b.err # "none"
        THEN [err |-> b.err, stream |-> strm, pos |-> p, ret |-> 0]
        ELSE [err |-> "none", stream |-> w.stream, pos |-> w.pos, ret |-> w.ret]

(* String.read(stream, size, encoding = "utf-8").                          *)
StringRead(strm, p, size) ==
    LET r == StreamRead(strm, p, size)
        u == Utf8Decode(r.data)
    IN  [err |-> u.err, value |-> u.value, pos |-> r.pos]

(* String.write(stream, string, encoding = "utf-8"): an object that is no  *)
(* str has no encode.                                                      *)
StringWrite(strm, p, v) ==
    IF v.tag # "str"
    THEN [err |-> "AttributeError", stream |-> strm, pos |-> p, ret |-> 0]
    ELSE LET b == Utf8Encode(v.s)
             w == StreamWrite(strm, p, b.bytes)
         IN  IF b.err # "none"
             THEN [err |-> b.err, stream |-> strm, pos |-> p, ret |-> 0]
             ELSE [err |-> "none", stream |-> w.stream, pos |-> w.pos, ret |-> w.ret]

----------------------------------------------------------------------------
(* Struct.  The loops run over self.fields in tuple order, from index i.   *)

(* field.type.read(in_stream), as Struct.read calls it: one argument, so   *)
(* the byte order is the default "<", and String.read, which has no        *)
(* default for size, raises TypeError before it touches the stream.        *)
FieldRead(type, strm, p) ==
    IF IsNum(type) THEN NumRead(type.kind, "<", strm, p)
    ELSE [err |-> "TypeError", value |-> None, pos |-> p]

(* field.type.write(out_stream, field.value), as Struct.write calls it.    *)
FieldWrite(type, strm, p, v) ==
    IF IsNum(type) THEN NumWrite(type.kind, "<", strm, p, v)
    ELSE StringWrite(strm, p, v)

(* Struct.read: at is the number of fields assigned when the loop ended.   *)
RECURSIVE ReadLoop(_, _, _, _)
ReadLoop(flds, i, strm, p) ==
    IF i > Len(flds)
    THEN [err |-> "none", fields |-> flds, pos |-> p, at |-> i - 1]
    ELSE LET r == FieldRead(flds[i].type, strm, p)
         IN  IF r.err # "none"
             THEN [err |-> r.err, fields |-> flds, pos |-> r.pos, at |-> i - 1]
             ELSE ReadLoop([flds EXCEPT ![i].value = r.value], i + 1, strm, r.pos)

(* A plausible slip: a read that fails restores the fields it assigned.    *)
StructReadRollback(flds, strm, p) ==
    LET r == ReadLoop(flds, 1, strm, p)
    IN  IF r.err # "none" THEN [r EXCEPT !.fields = flds] ELSE r
StructRead(flds, strm, p) == ReadLoop(flds, 1, strm, p)

(* Struct.write: at is the number of fields written when the loop ended.   *)
RECURSIVE WriteLoop(_, _, _, _)
WriteLoop(flds, i, strm, p) ==
    IF i > Len(flds)
    THEN [err |-> "none", stream |-> strm, pos |-> p, at |-> i - 1]
    ELSE LET r == FieldWrite(flds[i].type, strm, p, flds[i].value)
         IN  IF r.err # "none"
             THEN [err |-> r.err, stream |-> strm, pos |-> p, at |-> i - 1]
             ELSE WriteLoop(flds, i + 1, r.stream, r.pos)

(* A plausible slip: the fields are written last to first.                 *)
StructWriteReversed(flds, strm, p) == WriteLoop(Reverse(flds), 1, strm, p)
StructWrite(flds, strm, p) == WriteLoop(flds, 1, strm, p)

(* Struct.set: the first field of that name decides; FieldNotFound when    *)
(* the loop ends without one.                                              *)
RECURSIVE SetLoop(_, _, _, _)
SetLoop(flds, i, name, v) ==
    IF i > Len(flds) THEN [err |-> "FieldNotFound", fields |-> flds]
    ELSE IF flds[i].name = name
         THEN IF Verify(flds[i].type, v)
              THEN [err |-> "none", fields |-> [flds EXCEPT ![i].value = v]]
              ELSE [err |-> "FieldValidationError", fields |-> flds]
    ELSE SetLoop(flds, i + 1, name, v)

(* Plausible slips of Struct.set: every field of the name is assigned; the *)
(* value is assigned before it is verified; the loop ends without raising  *)
(* FieldNotFound.                                                          *)
StructSetAll(flds, name, v) ==
    LET r == SetLoop(flds, 1, name, v)
    IN  IF r.err # "none" THEN r
        ELSE [r EXCEPT !.fields =
                [i \in 1..Len(flds) |->
                    IF flds[i].name = name THEN [flds[i] EXCEPT !.value = v]
                    ELSE flds[i]]]
StructSetEager(flds, name, v) ==
    LET r == SetLoop(flds, 1, name, v)
    IN  IF r.err # "FieldValidationError" THEN r
        ELSE LET i == CHOOSE k \in 1..Len(flds) :
                          flds[k].name = name /\ \A j \in 1..(k - 1) : flds[j].name # name
             IN  [r EXCEPT !.fields = [flds EXCEPT ![i].value = v]]
StructSetCreate(flds, name, v) ==
    LET r == SetLoop(flds, 1, name, v)
    IN  IF r.err # "FieldNotFound" THEN r
        ELSE [err |-> "none", fields |-> flds]
StructSet(flds, name, v) == SetLoop(flds, 1, name, v)

(* Struct.get.                                                             *)
RECURSIVE GetLoop(_, _, _)
GetLoop(flds, i, name) ==
    IF i > Len(flds) THEN [err |-> "FieldNotFound", ret |-> None]
    ELSE IF flds[i].name = name THEN [err |-> "none", ret |-> flds[i].value]
    ELSE GetLoop(flds, i + 1, name)

StructGet(flds, name) == GetLoop(flds, 1, name)

----------------------------------------------------------------------------
(* The structs, values and streams the calls are made with.                *)

(* Writes start on a stream of at most MaxPrefix bytes.                    *)
MaxPrefix == 1

Decl(name, type) == [name |-> name, type |-> type]

(* Field lists: none, distinct names, a duplicated name, a String between  *)
(* and before numbers, three fields.                                       *)
Schemas ==
    { <<>>,
      <<Decl("a", Int8), Decl("b", Int16)>>,
      <<Decl("a", Int32), Decl("a", Int8)>>,
      <<Decl("a", String(2)), Decl("b", Int8)>>,
      <<Decl("b", Int8), Decl("a", Int16), Decl("b", String(2))>> }

(* Field(name, type) leaves the value None; Field(name, type, default)     *)
(* stores default as it is.                                                *)
Defaults == {None, IntV(1), StrV(<<97>>)}

Build(decls, defaults) ==
    [i \in 1..Len(decls) |-> Field(decls[i].name, decls[i].type, defaults[i])]

Fresh(flds) == [i \in 1..Len(flds) |-> Field(flds[i].name, flds[i].type, None)]

Names == {"a", "b", "missing"}

(* -2 fits every width, 300 = 0x012C does not fit Int8; "é" is one    *)
(* character and two bytes, "abc" is three bytes.                          *)
SetValues == {IntV(-2), IntV(300), StrV(<<233>>)}

(* The streams handed to Struct.read are the prefixes of FeedData.         *)
FeedData == <<254, 1, 195, 169, 255>>

----------------------------------------------------------------------------
(* The calls.                                                              *)

Set(name, v) ==
    LET r == StructSet(fields, name, v)
    IN  /\ fields' = r.fields
        /\ last' = [op |-> "set", name |-> name, val |-> v, err |-> r.err]
        /\ UNCHANGED <<fields2, stream, pos>>

Get(name) ==
    LET r == StructGet(fields, name)
    IN  /\ last' = [op |-> "get", name |-> name, err |-> r.err, ret |-> r.ret]
        /\ UNCHANGED <<fields, fields2, stream, pos>>

Write ==
    /\ Len(stream) <= MaxPrefix
    /\ LET r == StructWrite(fields, stream, pos)
       IN  /\ stream' = r.stream
           /\ pos' = r.pos
           /\ last' = [op |-> "write", err |-> r.err, at |-> r.at, start |-> pos,
                       empty |-> (stream = <<>>)]
    /\ UNCHANGED <<fields, fields2>>

Read ==
    LET r == StructRead(fields, stream, pos)
    IN  /\ fields' = r.fields
        /\ pos' = r.pos
        /\ last' = [op |-> "read", err |-> r.err, at |-> r.at, start |-> pos, into |-> 1]
        /\ UNCHANGED <<fields2, stream>>

(* stream.seek(p), 0 <= p <= the length of the stream.  The last call is   *)
(* kept only when it was a write and the cursor returns to where that      *)
(* write began; elsewhere what it says of the bytes at the cursor no       *)
(* longer applies.                                                         *)
Seek(p) ==
    /\ pos' = p
    /\ last' = IF last.op \in {"write", "Num.write", "String.write"} /\ last.start = p
               THEN last
               ELSE [op |-> "seek"]
    /\ UNCHANGED <<fields, fields2, stream>>

(* The caller opens another stream, holding the first n bytes of FeedData. *)
Feed(n) ==
    /\ stream' = SubSeq(FeedData, 1, n)
    /\ pos' = 0
    /\ last' = [op |-> "feed"]
    /\ UNCHANGED <<fields, fields2>>

Init ==
    /\ \E decls \in Schemas : \E d \in [1..Len(decls) -> Defaults] :
          fields = Build(decls, d)
    /\ fields2 = <<>>
    /\ stream = <<>>
    /\ pos = 0
    /\ last = [op |-> "init"]

Next ==
    \/ \E name \in Names, v \in SetValues : Set(name, v)
    \/ \E name \in Names : Get(name)
    \/ Write
    \/ Read
    \/ Seek(0)
    \/ \E n \in 0..Len(FeedData) : Feed(n)

Spec == Init /\ [][Next]_vars

----------------------------------------------------------------------------
(* The types called directly: Int8 / Int16 / Int32 .write(stream, number,  *)
(* endian) and .read(stream, endian), String.write(stream, string) and     *)
(* String.read(stream, size).                                              *)

Kinds == {"Int8", "Int16", "Int32"}
Endians == {"<", ">"}

(* The bounds of the three widths, their neighbours, and 0x012C and        *)
(* 0x01020304, whose bytes differ from one another.                        *)
SampleInts ==
    { -2147483647 - 1, -32769, -32768, -129, -128, -2, 0,
      127, 128, 300, 32767, 32768, 16909060, 2147483647 }

(* "", "a", "é" (2 bytes), "a€" (4 bytes), "hello", U+1F600 (4 bytes) and  *)
(* a lone surrogate, which UTF-8 does not encode.                          *)
SampleTexts ==
    { <<>>, <<97>>, <<233>>, <<97, 8364>>, <<104, 101, 108, 108, 111>>,
      <<128512>>, <<55296>> }

(* The sizes String.read is asked for run up to MaxSize.                   *)
MaxSize == 5

NumWriteCall(kind, endian, v) ==
    /\ Len(stream) <= MaxPrefix
    /\ LET r == NumWrite(kind, endian, stream, pos, v)
       IN  /\ stream' = r.stream
           /\ pos' = r.pos
           /\ last' = [op |-> "Num.write", kind |-> kind, endian |-> endian, val |-> v,
                       err |-> r.err, count |-> r.ret, start |-> pos]
    /\ UNCHANGED <<fields, fields2>>

NumReadCall(kind, endian) ==
    LET r == NumRead(kind, endian, stream, pos)
    IN  /\ pos' = r.pos
        /\ last' = [op |-> "Num.read", kind |-> kind, endian |-> endian,
                    err |-> r.err, ret |-> r.value, start |-> pos]
        /\ UNCHANGED <<fields, fields2, stream>>

StringWriteCall(v) ==
    /\ Len(stream) <= MaxPrefix
    /\ LET r == StringWrite(stream, pos, v)
       IN  /\ stream' = r.stream
           /\ pos' = r.pos
           /\ last' = [op |-> "String.write", val |-> v,
                       err |-> r.err, count |-> r.ret, start |-> pos]
    /\ UNCHANGED <<fields, fields2>>

StringReadCall(size) ==
    LET r == StringRead(stream, pos, size)
    IN  /\ pos' = r.pos
        /\ last' = [op |-> "String.read", size |-> size,
                    err |-> r.err, ret |-> r.value, start |-> pos]
        /\ UNCHANGED <<fields, fields2, stream>>

InitCodec ==
    /\ fields = <<>>
    /\ fields2 = <<>>
    /\ stream = <<>>
    /\ pos = 0
    /\ last = [op |-> "init"]

NextCodec ==
    \/ \E kind \in Kinds, endian \in Endians, n \in SampleInts :
          NumWriteCall(kind, endian, IntV(n))
    \/ \E kind \in Kinds, endian \in Endians : NumWriteCall(kind, endian, None)
    \/ \E kind \in Kinds, endian \in Endians : NumReadCall(kind, endian)
    \/ \E s \in SampleTexts : StringWriteCall(StrV(s))
    \/ StringWriteCall(None)
    \/ \E size \in 0..MaxSize : StringReadCall(size)
    \/ \E p \in 0..Len(stream) : Seek(p)

SpecCodec == InitCodec /\ [][NextCodec]_vars

----------------------------------------------------------------------------
(* The round trip: a struct is written to an empty stream and a second     *)
(* struct, built from the same declarations, reads the stream.             *)

RoundTripSchemas ==
    { <<Decl("a", Int8)>>,
      <<Decl("a", Int8), Decl("b", Int16), Decl("c", Int32)>>,
      <<Decl("a", Int32), Decl("a", Int16)>>,
      <<Decl("s", String(2))>>,
      <<Decl("a", Int16), Decl("s", String(5))>>,
      <<Decl("s", String(4)), Decl("b", Int8)>> }

RoundTripValues == {None} \cup {IntV(n) : n \in SampleInts} \cup {StrV(s) : s \in SampleTexts}

(* S2.read(stream), S2 the second struct.                                  *)
ReadInto2 ==
    LET r == StructRead(fields2, stream, pos)
    IN  /\ fields2' = r.fields
        /\ pos' = r.pos
        /\ last' = [op |-> "read", err |-> r.err, at |-> r.at, start |-> pos, into |-> 2]
        /\ UNCHANGED <<fields, stream>>

(* The values a field of that type is given: those its verify accepts, and *)
(* None.                                                                   *)
InitRoundTrip ==
    /\ \E decls \in RoundTripSchemas : \E d \in [1..Len(decls) -> RoundTripValues] :
          /\ \A i \in 1..Len(decls) : d[i] = None \/ Verify(decls[i].type, d[i])
          /\ fields = Build(decls, d)
    /\ fields2 = Fresh(fields)
    /\ stream = <<>>
    /\ pos = 0
    /\ last = [op |-> "init"]

NextRoundTrip ==
    \/ Write
    \/ \E p \in 0..Len(stream) : Seek(p)
    \/ ReadInto2

SpecRoundTrip == InitRoundTrip /\ [][NextRoundTrip]_vars

----------------------------------------------------------------------------
(* What the properties speak of.                                           *)

HasName(flds, name) == \E i \in 1..Len(flds) : flds[i].name = name

(* The position of the first field of that name.                           *)
First(flds, name) ==
    CHOOSE i \in 1..Len(flds) :
        flds[i].name = name /\ \A j \in 1..(i - 1) : flds[j].name # name

SameSchema(f, g) ==
    /\ Len(f) = Len(g)
    /\ \A i \in 1..Len(f) : f[i].name = g[i].name /\ f[i].type = g[i].type

(* C4: when set(name, v) is called with a name some field has and a value  *)
(* that the verify of the first field of that name accepts, it returns     *)
(* normally, get(name) then returns v, the first field of that name holds  *)
(* v and every other field, a later one of the same name included, is as   *)
(* it was.                                                                 *)
C4_SetThenGet ==
    [][(/\ last'.op = "set"
        /\ Set(last'.name, last'.val)
        /\ HasName(fields, last'.name)
        /\ Verify(fields[First(fields, last'.name)].type, last'.val))
       => LET name == last'.name
              v == last'.val
          IN  /\ last'.err = "none"
              /\ StructGet(fields', name) = [err |-> "none", ret |-> v]
              /\ SameSchema(fields', fields)
              /\ fields'[First(fields, name)].value = v
              /\ \A i \in 1..Len(fields) :
                    i # First(fields, name) => fields'[i] = fields[i]]_vars

(* A set has succeeded on the first of two fields of one name, and the     *)
(* second one holds another value.                                         *)
C4_Witness ==
    /\ last.op = "set" /\ last.err = "none"
    /\ \E i, j \in 1..Len(fields) :
          /\ i < j
          /\ fields[i].name = last.name /\ fields[j].name = last.name
          /\ i = First(fields, last.name)
          /\ fields[i].value = last.val
          /\ fields[j].value # last.val

(* C5: when set(name, v) is called with a name some field has and v is a   *)
(* text while the first field of that name is Int8, Int16 or Int32, or v   *)
(* is an integer while it is a String, the call fails with                 *)
(* FieldValidationError and every field is as it was, so get(name) returns *)
(* what it returned before.                                                *)
C5_RejectedSet ==
    [][(/\ last'.op = "set"
        /\ Set(last'.name, last'.val)
        /\ HasName(fields, last'.name)
        /\ LET t == fields[First(fields, last'.name)].type
           IN  \/ IsNum(t) /\ last'.val.tag = "str"
               \/ t.kind = "String" /\ last'.val.tag = "int")
       => /\ last'.err = "FieldValidationError"
          /\ fields' = fields
          /\ StructGet(fields', last'.name) = StructGet(fields, last'.name)]_vars

(* A set has been rejected by the first field of the name although a later *)
(* field of that name accepts the value.                                   *)
C5_Witness ==
    /\ last.op = "set" /\ last.err = "FieldValidationError"
    /\ \E j \in 1..Len(fields) :
          /\ fields[j].name = last.name
          /\ j # First(fields, last.name)
          /\ Verify(fields[j].type, last.val)
          /\ fields[j].value # last.val

(* C6: with a name no field has, get(name) and set(name, v) fail with      *)
(* FieldNotFound for every v and no field changes; with a name some field  *)
(* has, get(name) does not fail with FieldNotFound, unset value or not.    *)
C6_LookupMiss ==
    [][/\ (last'.op = "get" /\ Get(last'.name))
          => IF HasName(fields, last'.name)
             THEN last'.err # "FieldNotFound"
             ELSE last'.err = "FieldNotFound" /\ fields' = fields
       /\ (last'.op = "set" /\ Set(last'.name, last'.val) /\ ~HasName(fields, last'.name))
          => (last'.err = "FieldNotFound" /\ fields' = fields)]_vars

(* A set has missed on a struct that has a field accepting the value.      *)
C6_Witness ==
    /\ last.op = "set" /\ last.err = "FieldNotFound"
    /\ ~HasName(fields, last.name)
    /\ \E i \in 1..Len(fields) : Verify(fields[i].type, last.val)

(* C10: every field whose value is not None holds a value that the verify  *)
(* of its type accepts.                                                    *)
C10_FieldValueInvariant ==
    \A i \in 1..Len(fields) :
        fields[i].value # None => Verify(fields[i].type, fields[i].value)

(* The declared width of a field: 1, 2 or 4 bytes, or the length of the    *)
(* String.                                                                 *)
DeclWidth(type) == IF IsNum(type) THEN Width(type.kind) ELSE type.length

(* Where field i begins when the record begins at p0 and every field       *)
(* before it takes its declared width.                                     *)
RECURSIVE Offset(_, _, _)
Offset(flds, i, p0) ==
    IF i = 1 THEN p0 ELSE Offset(flds, i - 1, p0) + DeclWidth(flds[i - 1].type)

(* The bytes of strm that field i spans at its declared width.             *)
Slot(flds, i, strm, p0) ==
    SubSeq(strm, Offset(flds, i, p0) + 1, Offset(flds, i, p0) + DeclWidth(flds[i].type))

(* The bytes a field's value is written as: little-endian two's complement *)
(* for a number, UTF-8 for a text.                                         *)
Encoded(f) ==
    IF IsNum(f.type) THEN LittleBytes(Width(f.type.kind), f.value.n)
    ELSE EncodeFrom(f.value.s, 1)

(* C9 (as amended): when Struct.read fails at the field at position k,     *)
(* every field before k holds the number decoded from its slot of the      *)
(* stream, and the field at k and every later field hold what they held    *)
(* before the call; field k is a String or has fewer bytes left than its   *)
(* width.                                                                  *)
C9_PartialRead ==
    [][(Read /\ last'.err # "none")
       => LET k == last'.at + 1
          IN  /\ k \in 1..Len(fields)
              /\ SameSchema(fields', fields)
              /\ \/ ~IsNum(fields[k].type)
                 \/ Len(stream) - Offset(fields, k, pos) < Width(fields[k].type.kind)
              /\ \A i \in 1..(k - 1) :
                    /\ IsNum(fields[i].type)
                    /\ fields'[i].value = IntV(Horner(Slot(fields, i, stream, pos), 1))
              /\ \A i \in k..Len(fields) : fields'[i].value = fields[i].value]_vars

(* C9 as claimed: the field at k and every later field are unset.          *)
C9_PartialReadUnset ==
    [][(Read /\ last'.err # "none")
       => LET k == last'.at + 1
          IN  /\ k \in 1..Len(fields)
              /\ \A i \in 1..(k - 1) :
                    fields'[i].value = IntV(Horner(Slot(fields, i, stream, pos), 1))
              /\ \A i \in k..Len(fields) : fields'[i].value = None]_vars

(* A read has failed on a truncated stream after it assigned a field, and  *)
(* a field it did not reach holds a value.                                 *)
C9_Witness ==
    /\ last.op = "read" /\ last.err = "struct.error"
    /\ last.at >= 1
    /\ \E i \in (last.at + 1)..Len(fields) : fields[i].value # None

(* C8: a successful Struct.write leaves the bytes of every field in the    *)
(* slot that starts at the sum of the widths of the fields before it, and  *)
(* a successful Struct.read gives every field the value decoded from that  *)
(* slot.                                                                   *)
C8_DeclarationOrder ==
    [][/\ (Write /\ last'.err = "none")
          => \A i \in 1..Len(fields) :
                Slot(fields, i, stream', pos) = Encoded(fields[i])
       /\ (Read /\ last'.err = "none")
          => \A i \in 1..Len(fields) :
                /\ IsNum(fields[i].type)
                /\ fields'[i].value = IntV(Horner(Slot(fields, i, stream, pos), 1))]_vars

----------------------------------------------------------------------------
(* The codecs and the round trip.                                          *)

InRange(kind, n) == IntMin(kind) <= n /\ n <= IntMax(kind)

AllNum(flds) == \A i \in 1..Len(flds) : IsNum(flds[i].type)

TotalWidth(flds) == Offset(flds, Len(flds) + 1, 0)

RECURSIVE LowSum(_, _)
LowSum(le, m) == IF m = 0 THEN 0 ELSE LowSum(le, m - 1) + le[m] * (256 ^ (m - 1))

(* le, least significant byte first, is the two's complement of n in       *)
(* Len(le) bytes: the top bit is the sign and the bytes weigh 256^i.       *)
TwosComplement(le, n) ==
    LET w == Len(le)
    IN  /\ \A i \in 1..w : le[i] \in 0..255
        /\ (le[w] >= 128) <=> (n < 0)
        /\ n = LowSum(le, w - 1)
               + (IF n < 0 THEN le[w] - 256 ELSE le[w]) * (256 ^ (w - 1))

(* C3: for each width, each byte order and each n in the range of the      *)
(* width, write(stream, n, endian) stores at the cursor (at the end, when  *)
(* the cursor is there) exactly w bytes, the two's complement of n in that *)
(* byte order, and returns w; read(stream, endian) on those bytes with the *)
(* same byte order returns n.                                              *)
C3_IntCodecRoundTrip ==
    [][/\ (/\ last'.op = "Num.write"
           /\ NumWriteCall(last'.kind, last'.endian, last'.val)
           /\ last'.val.tag = "int"
           /\ InRange(last'.kind, last'.val.n))
          => LET w == Width(last'.kind)
                 b == SubSeq(stream', pos + 1, pos + w)
             IN  /\ last'.err = "none"
                 /\ last'.count = w
                 /\ pos' = pos + w
                 /\ stream' = SubSeq(stream, 1, pos) \o b
                                \o SubSeq(stream, pos + w + 1, Len(stream))
                 /\ Len(b) = w
                 /\ TwosComplement(IF last'.endian = "<" THEN b ELSE Reverse(b),
                                   last'.val.n)
       /\ (/\ last'.op = "Num.read"
           /\ NumReadCall(last'.kind, last'.endian)
           /\ last.op = "Num.write" /\ last.err = "none"
           /\ last.kind = last'.kind /\ last.endian = last'.endian
           /\ pos = last.start)
          => /\ last'.err = "none"
             /\ last'.ret = last.val
             /\ pos' = pos + Width(last'.kind)]_vars

(* The smallest Int32 has been written big-endian behind a byte already in *)
(* the stream and read back.                                               *)
C3_Witness ==
    /\ last.op = "Num.read" /\ last.err = "none"
    /\ last.kind = "Int32" /\ last.endian = ">"
    /\ last.start = 1
    /\ last.ret = IntV(-2147483647 - 1)
    /\ SubSeq(stream, 2, 5) = <<128, 0, 0, 0>>

(* C7: a read that finds fewer bytes left than the width asked for fails,  *)
(* for Int8, Int16, Int32 and for String.                                  *)
C7_ShortRead ==
    [][/\ (/\ last'.op = "Num.read"
           /\ NumReadCall(last'.kind, last'.endian)
           /\ Len(stream) - pos < Width(last'.kind))
          => last'.err # "none"
       /\ (/\ last'.op = "String.read"
           /\ StringReadCall(last'.size)
           /\ Len(stream) - pos < last'.size)
          => last'.err # "none"]_vars

(* C1: a struct of Int8, Int16 and Int32 fields whose values are in range  *)
(* writes to an empty stream 1, 2 or 4 bytes per field; the second struct, *)
(* reading that stream from its start, ends with every value equal to the  *)
(* original and has consumed exactly the bytes written.                    *)
C1_IntRoundTrip ==
    [][/\ (/\ Write /\ stream = <<>> /\ AllNum(fields)
           /\ \A i \in 1..Len(fields) :
                 fields[i].value.tag = "int"
                 /\ InRange(fields[i].type.kind, fields[i].value.n))
          => /\ last'.err = "none"
             /\ Len(stream') = TotalWidth(fields)
       /\ (/\ ReadInto2 /\ AllNum(fields)
           /\ last.op = "write" /\ last.err = "none" /\ last.empty
           /\ pos = 0)
          => /\ last'.err = "none"
             /\ SameSchema(fields2', fields)
             /\ \A i \in 1..Len(fields) : fields2'[i].value = fields[i].value
             /\ pos' = Len(stream)
             /\ pos' = TotalWidth(fields)]_vars

(* The second struct has read back the smallest Int8, the largest Int16    *)
(* and the smallest Int32 from the seven bytes the first one wrote.        *)
C1_Witness ==
    /\ last.op = "read" /\ last.into = 2 /\ last.err = "none" /\ last.start = 0
    /\ Len(fields) = 3
    /\ fields[1].value = IntV(-128)
    /\ fields[2].value = IntV(32767)
    /\ fields[3].value = IntV(-2147483647 - 1)
    /\ \A i \in 1..3 : fields2[i].value = fields[i].value
    /\ pos = 7 /\ Len(stream) = 7

(* C2: a struct with a String(L) field whose text is exactly L bytes of    *)
(* UTF-8, its numbers in range, is written to an empty stream; the second  *)
(* struct reads that stream from its start without error and ends with     *)
(* every value equal to the original.                                      *)
C2_StringRoundTrip ==
    [][(/\ ReadInto2
        /\ last.op = "write" /\ last.err = "none" /\ last.empty
        /\ pos = 0
        /\ \E i \in 1..Len(fields) : ~IsNum(fields[i].type)
        /\ \A i \in 1..Len(fields) :
              IF IsNum(fields[i].type)
              THEN InRange(fields[i].type.kind, fields[i].value.n)
              ELSE Len(EncodeFrom(fields[i].value.s, 1)) = fields[i].type.length)
       => /\ last'.err = "none"
          /\ \A i \in 1..Len(fields) : fields2'[i].value = fields[i].value]_vars

====
